---------------------------- MODULE Spec2Model ----------------------------
(***************************************************************************)
(* A model of the market-sentiment engine of insiderscope:                 *)
(*   src/src/lib/services/technical-analysis.ts  (calculators, pattern     *)
(*       detector, signal generator, aggregator, getMarketSentiment)       *)
(*   src/src/lib/cache.ts                        (MemoryCache, withCache)  *)
(*                                                                         *)
(* Numbers.  The program computes in IEEE doubles.  The model computes in  *)
(* fixed point: a number x is the integer x * Scale, division rounds to    *)
(* the nearest unit (RoundDiv) and Math.sqrt is the integer square root.   *)
(* Scale is a multiple of 20, 50 and 200, so every SMA of integer prices   *)
(* is exact.  Scores are kept in tenths (ScoreUnit units per point), so    *)
(* that confidence * 0.2 is exact for every integer confidence.            *)
(* A quotient with a zero divisor (Infinity, NaN) is a tagged record.      *)
(***************************************************************************)
EXTENDS Integers, Sequences, FiniteSets

Scale == 2 * 100

ScoreUnit == 2 * 5

-----------------------------------------------------------------------------
(* Arithmetic helpers                                                      *)

Abs(x) == IF x < 0 THEN -x ELSE x

Max2(a, b) == IF a >= b THEN a ELSE b

Min2(a, b) == IF a <= b THEN a ELSE b

\* a / b for b > 0, rounded to the nearest unit (ties upwards)
RoundDiv(a, b) == (2 * a + b) \div (2 * b)

RECURSIVE SqrtSearch(_, _, _)
SqrtSearch(x, lo, hi) ==
  IF lo >= hi THEN lo
  ELSE LET mid == (lo + hi + 1) \div 2
       IN IF mid * mid <= x THEN SqrtSearch(x, mid, hi)
          ELSE SqrtSearch(x, lo, mid - 1)

\* Math.sqrt on a fixed-point number: sqrt(x/Scale)*Scale = sqrt(x*Scale)
MathSqrt(x) == SqrtSearch(x * Scale, 0, 40000)

\* Folds over s[lo..hi] split the range in halves, which keeps the depth of
\* the evaluation logarithmic in the length of the series.
RECURSIVE SumRange(_, _, _)
SumRange(s, lo, hi) ==
  IF lo > hi THEN 0
  ELSE IF lo = hi THEN s[lo]
  ELSE LET mid == (lo + hi) \div 2
       IN SumRange(s, lo, mid) + SumRange(s, mid + 1, hi)

\* reduce((sum, p) => sum + p, 0)
SumSeq(s) == SumRange(s, 1, Len(s))

RECURSIVE MinRange(_, _, _)
MinRange(s, lo, hi) ==
  IF lo = hi THEN s[lo]
  ELSE LET mid == (lo + hi) \div 2
       IN Min2(MinRange(s, lo, mid), MinRange(s, mid + 1, hi))

\* Math.min(...s) for a non-empty s
MinSeq(s) == MinRange(s, 1, Len(s))

RECURSIVE MaxRange(_, _, _)
MaxRange(s, lo, hi) ==
  IF lo = hi THEN s[lo]
  ELSE LET mid == (lo + hi) \div 2
       IN Max2(MaxRange(s, lo, mid), MaxRange(s, mid + 1, hi))

\* Math.max(...s) for a non-empty s
MaxSeq(s) == MaxRange(s, 1, Len(s))

\* Array.prototype.slice(-n): the last n elements (all of them when n = 0,
\* because -0 is 0, or when n exceeds the length)
SliceLast(a, n) ==
  IF n = 0 \/ n >= Len(a) THEN a ELSE SubSeq(a, Len(a) - n + 1, Len(a))

\* Array.prototype.slice(0, n)
SliceFirst(a, n) == IF n >= Len(a) THEN a ELSE SubSeq(a, 1, n)

\* Array.prototype.slice(0, -1)
SliceButLast(a) == IF Len(a) = 0 THEN a ELSE SubSeq(a, 1, Len(a) - 1)

\* prices[prices.length - 1] || 0
LastOrZero(a) == IF Len(a) = 0 THEN 0 ELSE a[Len(a)]

-----------------------------------------------------------------------------
(* Series utilities and indicator calculators                              *)

\* an average over the first `period` elements: slice(0, period)
calculateSMAFirst(prices, period) ==
  IF Len(prices) < period THEN LastOrZero(prices)
  ELSE RoundDiv(SumSeq(SliceFirst(prices, period)), period)

calculateSMA(prices, period) ==
  IF Len(prices) < period THEN LastOrZero(prices)
  ELSE RoundDiv(SumSeq(SliceLast(prices, period)), period)

\* ema = (prices[i] - ema) * multiplier + ema, multiplier = 2 / (period + 1)
EmaStep(ema, price, period) == RoundDiv((price - ema) * 2, period + 1) + ema

\* the loop for (i = lo; i <= hi; i++) ema = EmaStep(ema, prices[i]), in order
RECURSIVE EmaLoop(_, _, _, _, _)
EmaLoop(prices, period, lo, hi, ema) ==
  IF lo > hi THEN ema
  ELSE IF lo = hi THEN EmaStep(ema, prices[lo], period)
  ELSE LET mid  == (lo + hi) \div 2
           left == EmaLoop(prices, period, lo, mid, ema)
       IN \* the test makes TLC compute `left` before it descends further
          IF left = left THEN EmaLoop(prices, period, mid + 1, hi, left)
          ELSE left

\* an EMA seeded with the mean of the last `period` elements: slice(-period)
calculateEMASeedLast(prices, period) ==
  IF Len(prices) < period THEN LastOrZero(prices)
  ELSE EmaLoop(prices, period, period + 1, Len(prices),
               calculateSMA(SliceLast(prices, period), period))

calculateEMA(prices, period) ==
  IF Len(prices) < period THEN LastOrZero(prices)
  ELSE EmaLoop(prices, period, period + 1, Len(prices),
               calculateSMA(SliceFirst(prices, period), period))

\* the changes prices[i] - prices[i - 1] for i = from..prices.length - 1
\* (0-based), as the loop of calculateRSI visits them
Changes(prices, from) ==
  [k \in 1..(Len(prices) - from) |-> prices[from + k] - prices[from + k - 1]]

\* if (change > 0) gains += change; else losses -= change;
Gains(changes) ==
  SumSeq([k \in 1..Len(changes) |-> IF changes[k] > 0 THEN changes[k] ELSE 0])

Losses(changes) ==
  SumSeq([k \in 1..Len(changes) |-> IF changes[k] > 0 THEN 0 ELSE -changes[k]])

\* 100 - 100/rs, the "1 +" left out: 100 - 100*losses/gains, and -Infinity
\* (here: a number below every RSI) when there is no gain
calculateRSIMissingOne(prices, period) ==
  IF Len(prices) < period + 1 THEN 50 * Scale
  ELSE LET changes == Changes(prices, Len(prices) - period)
           gains   == Gains(changes)
           losses  == Losses(changes)
       IN IF losses = 0 THEN 100 * Scale
          ELSE IF gains = 0 THEN -100 * Scale
          ELSE 100 * Scale - RoundDiv(100 * Scale * losses, gains)

\* 100 - 100/(1 + rs) with rs = avgGain/avgLoss = gains/losses, so that
\* 100/(1 + rs) = 100*losses/(losses + gains)
calculateRSI(prices, period) ==
  IF Len(prices) < period + 1 THEN 50 * Scale
  ELSE LET changes == Changes(prices, Len(prices) - period)
           gains   == Gains(changes)
           losses  == Losses(changes)
       IN IF losses = 0 THEN 100 * Scale
          ELSE 100 * Scale - RoundDiv(100 * Scale * losses, losses + gains)

\* signal = macd * 0.8; histogram = macd - signal
MacdTriple(macd) ==
  LET signal == RoundDiv(macd * 8, 10)
  IN [macd |-> macd, signal |-> signal, histogram |-> macd - signal]

calculateMACD(prices) ==
  MacdTriple(calculateEMA(prices, 12) - calculateEMA(prices, 26))

\* slice.map((p) => Math.pow(p - sma, 2))
SquaredDiffs(s, sma) ==
  [k \in 1..Len(s) |-> RoundDiv((s[k] - sma) * (s[k] - sma), Scale)]

\* a lower band one deviation below the middle
calculateBollingerBandsNarrowLower(prices, period) ==
  LET sma      == calculateSMA(prices, period)
      variance == RoundDiv(SumSeq(SquaredDiffs(SliceLast(prices, period), sma)), period)
      stdDev   == MathSqrt(variance)
  IN [upper |-> sma + stdDev * 2, middle |-> sma, lower |-> sma - stdDev]

calculateBollingerBands(prices, period) ==
  LET sma      == calculateSMA(prices, period)
      variance == RoundDiv(SumSeq(SquaredDiffs(SliceLast(prices, period), sma)), period)
      stdDev   == MathSqrt(variance)
  IN [upper |-> sma + stdDev * 2, middle |-> sma, lower |-> sma - stdDev * 2]

TrueRanges(highs, lows, closes) ==
  [j \in 1..(Len(highs) - 1) |->
     Max2(highs[j + 1] - lows[j + 1],
          Max2(Abs(highs[j + 1] - closes[j]), Abs(lows[j + 1] - closes[j])))]

calculateATR(highs, lows, closes, period) ==
  IF Len(highs) < period + 1 THEN 0
  ELSE calculateSMA(TrueRanges(highs, lows, closes), period)

-----------------------------------------------------------------------------
(* Possibly non-finite numbers (the result of a JavaScript division)       *)

Fin(x) == [kind |-> "finite", v |-> x]

\* a / b in JavaScript for a >= 0: x/0 is Infinity, 0/0 is NaN
Quotient(a, b) ==
  IF b = 0 THEN (IF a = 0 THEN [kind |-> "NaN", v |-> 0]
                 ELSE [kind |-> "Infinity", v |-> 0])
  ELSE Fin(RoundDiv(a * Scale, b))

\* x > c for a possibly non-finite x and a finite c: NaN compares false
NumGt(x, c) == \/ x.kind = "Infinity"
               \/ x.kind = "finite" /\ x.v > c

-----------------------------------------------------------------------------
(* Pattern detector                                                        *)

Pattern(name, type, confidence) ==
  [name |-> name, type |-> type, confidence |-> confidence]

When(cond, item) == IF cond THEN <<item>> ELSE <<>>

\* for (i = 1; i < last5Highs.length; i++): every successive element exceeds
\* the one before; an index past the end of `a` reads undefined, and a
\* comparison with undefined is false
StrictlyRising(a, n) ==
  \A i \in 2..n : ~(i <= Len(a) /\ a[i] <= a[i - 1])

\* a trend rule whose comparisons admit equality
TrendPatternsInclusive(has, currentPrice, sma50, sma200) ==
  IF has /\ currentPrice >= sma200 /\ currentPrice >= sma50
    THEN <<Pattern("Bullish Trend", "bullish", 70)>>
  ELSE IF has /\ currentPrice <= sma200 /\ currentPrice <= sma50
    THEN <<Pattern("Bearish Trend", "bearish", 70)>>
  ELSE <<>>

\* the trend rule: price above, or else below, both key averages; `has` is
\* false when currentPrice is undefined, which compares false
TrendPatterns(has, currentPrice, sma50, sma200) ==
  IF has /\ currentPrice > sma200 /\ currentPrice > sma50
    THEN <<Pattern("Bullish Trend", "bullish", 70)>>
  ELSE IF has /\ currentPrice < sma200 /\ currentPrice < sma50
    THEN <<Pattern("Bearish Trend", "bearish", 70)>>
  ELSE <<>>

\* a support/resistance rule that tests resistance only when support failed
LevelPatternsExclusive(has, currentPrice, hasLow, recentLow, hasHigh, recentHigh) ==
  IF has /\ (~hasLow \/ currentPrice * 100 <= recentLow * 102)
    THEN <<Pattern("Support Test", "bullish", 60)>>
  ELSE When(has /\ (~hasHigh \/ currentPrice * 100 >= recentHigh * 98),
            Pattern("Resistance Test", "bearish", 60))

\* the support and resistance rules: two separate if statements; Math.min()
\* of nothing is Infinity and Math.max() of nothing is -Infinity
LevelPatterns(has, currentPrice, hasLow, recentLow, hasHigh, recentHigh) ==
     When(has /\ (~hasLow \/ currentPrice * 100 <= recentLow * 102),
          Pattern("Support Test", "bullish", 60))
  \o When(has /\ (~hasHigh \/ currentPrice * 100 >= recentHigh * 98),
          Pattern("Resistance Test", "bearish", 60))

detectPatterns(prices, highs, lows) ==
  LET has          == Len(prices) > 0
      currentPrice == LastOrZero(prices)
      sma50        == calculateSMA(prices, 50)
      sma200       == calculateSMA(prices, 200)
      prevSma50    == calculateSMA(SliceButLast(prices), 50)
      prevSma200   == calculateSMA(SliceButLast(prices), 200)
      cross        == Len(prices) >= 200
      hasLow       == Len(lows) > 0
      hasHigh      == Len(highs) > 0
      recentLow    == IF hasLow THEN MinSeq(SliceLast(lows, 20)) ELSE 0
      recentHigh   == IF hasHigh THEN MaxSeq(SliceLast(highs, 20)) ELSE 0
      last5Highs   == SliceLast(highs, 5)
      last5Lows    == SliceLast(lows, 5)
      higherHighs  == StrictlyRising(last5Highs, Len(last5Highs))
      higherLows   == StrictlyRising(last5Lows, Len(last5Highs))
  IN    When(cross /\ prevSma50 < prevSma200 /\ sma50 > sma200,
             Pattern("Golden Cross", "bullish", 85))
     \o When(cross /\ prevSma50 > prevSma200 /\ sma50 < sma200,
             Pattern("Death Cross", "bearish", 85))
     \o TrendPatterns(has, currentPrice, sma50, sma200)
     \o LevelPatterns(has, currentPrice, hasLow, recentLow, hasHigh, recentHigh)
     \o When(higherHighs /\ higherLows,
             Pattern("Uptrend Structure", "bullish", 75))

-----------------------------------------------------------------------------
(* Signal generator                                                        *)

Signal(indicator, signal, value) ==
  [indicator |-> indicator, signal |-> signal, value |-> value]

\* the RSI rule
RsiSignal(indicators) ==
  Signal("RSI (14)",
         IF indicators.rsi14 < 30 * Scale THEN "BUY"
         ELSE IF indicators.rsi14 > 70 * Scale THEN "SELL"
         ELSE "NEUTRAL",
         Fin(indicators.rsi14))

\* a MACD rule that buys on a histogram of zero
MacdSignalInclusive(indicators) ==
  LET macd == indicators.macd
  IN Signal("MACD",
            IF macd.histogram >= 0 /\ macd.macd >= macd.signal THEN "BUY"
            ELSE IF macd.histogram < 0 THEN "SELL"
            ELSE "NEUTRAL",
            Fin(macd.histogram))

\* the MACD rule
MacdSignal(indicators) ==
  LET macd == indicators.macd
  IN Signal("MACD",
            IF macd.histogram > 0 /\ macd.macd > macd.signal THEN "BUY"
            ELSE IF macd.histogram < 0 THEN "SELL"
            ELSE "NEUTRAL",
            Fin(macd.histogram))

\* the moving-average alignment rule
MaSignal(indicators) ==
  Signal("MA Alignment",
         IF indicators.price > indicators.sma20 /\ indicators.sma20 > indicators.sma50
           THEN "BUY"
         ELSE IF indicators.price < indicators.sma20
                 /\ indicators.sma20 < indicators.sma50
           THEN "SELL"
         ELSE "NEUTRAL",
         Fin(indicators.sma20))

\* a Bollinger Bands rule that tests the upper band first
BollingerSignalSellFirst(indicators) ==
  Signal("Bollinger Bands",
         IF indicators.price >= indicators.bollingerBands.upper THEN "SELL"
         ELSE IF indicators.price <= indicators.bollingerBands.lower THEN "BUY"
         ELSE "NEUTRAL",
         Fin(indicators.price))

\* the Bollinger Bands rule
BollingerSignal(indicators) ==
  Signal("Bollinger Bands",
         IF indicators.price <= indicators.bollingerBands.lower THEN "BUY"
         ELSE IF indicators.price >= indicators.bollingerBands.upper THEN "SELL"
         ELSE "NEUTRAL",
         Fin(indicators.price))

\* the Volume rule: an entry only when the ratio exceeds 2
VolumeSignals(indicators) ==
  When(NumGt(indicators.volumeRatio, 2 * Scale),
       Signal("Volume",
              IF indicators.price > indicators.sma20 THEN "BUY" ELSE "SELL",
              indicators.volumeRatio))

\* a Funding Rate rule whose thresholds include their boundaries
FundingSignalsInclusive(indicators) ==
  IF indicators.fundingRate * 100 <= (-1) * Scale
    THEN <<Signal("Funding Rate", "BUY", Fin(indicators.fundingRate))>>
  ELSE IF indicators.fundingRate * 100 >= 5 * Scale
    THEN <<Signal("Funding Rate", "SELL", Fin(indicators.fundingRate))>>
  ELSE <<>>

\* the Funding Rate rule: fundingRate < -0.01, fundingRate > 0.05
FundingSignals(indicators) ==
  IF indicators.fundingRate * 100 < (-1) * Scale
    THEN <<Signal("Funding Rate", "BUY", Fin(indicators.fundingRate))>>
  ELSE IF indicators.fundingRate * 100 > 5 * Scale
    THEN <<Signal("Funding Rate", "SELL", Fin(indicators.fundingRate))>>
  ELSE <<>>

\* a signal generator that pushes the Funding Rate entry before the Volume one
generateSignalsFundingFirst(indicators) ==
  <<RsiSignal(indicators), MacdSignal(indicators), MaSignal(indicators),
    BollingerSignal(indicators)>>
  \o FundingSignals(indicators) \o VolumeSignals(indicators)

generateSignals(indicators) ==
  <<RsiSignal(indicators), MacdSignal(indicators), MaSignal(indicators),
    BollingerSignal(indicators)>>
  \o VolumeSignals(indicators) \o FundingSignals(indicators)

-----------------------------------------------------------------------------
(* Sentiment aggregator (scores in units of 1/ScoreUnit)                   *)

Clamp(x) == Max2(-100 * ScoreUnit, Min2(100 * ScoreUnit, x))

SignalSum(signals) ==
  SumSeq([k \in 1..Len(signals) |->
            IF signals[k].signal = "BUY" THEN 20 * ScoreUnit
            ELSE IF signals[k].signal = "SELL" THEN -20 * ScoreUnit
            ELSE 0])

\* a base score that is not clamped
calculateSentimentScoreUnclamped(signals) == SignalSum(signals)

calculateSentimentScore(signals) == Clamp(SignalSum(signals))

\* p.confidence * 0.2
PatternWeight(p) == (p.confidence * 2 * ScoreUnit) \div 10

PatternScore(patterns) ==
  SumSeq([k \in 1..Len(patterns) |->
            IF patterns[k].type = "bullish" THEN PatternWeight(patterns[k])
            ELSE IF patterns[k].type = "bearish" THEN -PatternWeight(patterns[k])
            ELSE 0])

\* a final score that is not clamped after the pattern influence is added
FinalScoreUnclamped(signals, patterns) ==
  calculateSentimentScore(signals) + PatternScore(patterns)

FinalScore(signals, patterns) ==
  Clamp(calculateSentimentScore(signals) + PatternScore(patterns))

\* a classification whose STRONG_BUY band excludes its boundary
OverallStrict(finalScore) ==
  IF finalScore > 60 * ScoreUnit THEN "STRONG_BUY"
  ELSE IF finalScore >= 20 * ScoreUnit THEN "BUY"
  ELSE IF finalScore <= -60 * ScoreUnit THEN "STRONG_SELL"
  ELSE IF finalScore <= -20 * ScoreUnit THEN "SELL"
  ELSE "NEUTRAL"

Overall(finalScore) ==
  IF finalScore >= 60 * ScoreUnit THEN "STRONG_BUY"
  ELSE IF finalScore >= 20 * ScoreUnit THEN "BUY"
  ELSE IF finalScore <= -60 * ScoreUnit THEN "STRONG_SELL"
  ELSE IF finalScore <= -20 * ScoreUnit THEN "SELL"
  ELSE "NEUTRAL"

-----------------------------------------------------------------------------
(* Candle retrieval (fetchOHLCV)                                           *)

MinCandles == 50

SentimentTtl == 60

\* bounds of the model
MaxCalls == 2

MaxLongTicks == 1

\* the symbols the callers ask for
Symbols == {"BTC", "ETH"}

\* the shapes of the candle series the upstream answers with
Shapes == {"up"}

\* the lengths of the candle series the upstream may answer with
SeriesLens == {0, MinCandles - 1, MinCandles}

\* the i-th candle (oldest first) of a series of the given shape
Candle(shape, i) ==
  LET close == IF shape = "up" THEN (100 + 2 * i) * Scale
               ELSE IF shape = "down" THEN (300 - 2 * i) * Scale
               ELSE 100 * Scale
      vol   == IF shape = "flat" THEN 0 ELSE (10 + (i % 3)) * Scale
  IN [time |-> i, open |-> close, high |-> close + Scale,
      low |-> close - Scale, close |-> close, volume |-> vol]

Candles(shape, n) == [i \in 1..n |-> Candle(shape, i)]

\* what the network and the body parser can do to one request
Outcome(kind, shape, n) == [kind |-> kind, shape |-> shape, n |-> n]

NetworkFailures == {Outcome("network_error", "none", 0), Outcome("not_ok", "none", 0)}

Bodies ==
  {Outcome(k, "none", 0) : k \in {"bad_json", "null_body", "not_array"}}
  \cup {Outcome("candles", sh, n) : sh \in Shapes, n \in SeriesLens}

\* the body of fetchOHLCV's try block: a thrown exception or a value
FetchAttempt(outcome) ==
  IF outcome.kind \in {"network_error", "bad_json", "not_array"}
    THEN [threw |-> TRUE, value |-> <<>>]
  ELSE IF outcome.kind \in {"not_ok", "null_body"}
    THEN [threw |-> FALSE, value |-> <<>>]
  ELSE [threw |-> FALSE, value |-> Candles(outcome.shape, outcome.n)]

\* a fetchOHLCV without its catch block
fetchOHLCVNoCatch(outcome) == FetchAttempt(outcome)

\* try { ... } catch (error) { console.error(...); return []; }
fetchOHLCV(outcome) ==
  LET r == FetchAttempt(outcome)
  IN IF r.threw THEN [threw |-> FALSE, value |-> <<>>] ELSE r

-----------------------------------------------------------------------------
(* getMarketSentiment: the function handed to withCache                    *)

Column(ohlcv, field) == [i \in 1..Len(ohlcv) |-> ohlcv[i][field]]

Indicators(symbol, closes, highs, lows, volumes) ==
  [symbol         |-> symbol,
   price          |-> closes[Len(closes)],
   sma20          |-> calculateSMA(closes, 20),
   sma50          |-> calculateSMA(closes, 50),
   sma200         |-> calculateSMA(closes, 200),
   ema12          |-> calculateEMA(closes, 12),
   ema26          |-> calculateEMA(closes, 26),
   rsi14          |-> calculateRSI(closes, 14),
   macd           |-> calculateMACD(closes),
   atr14          |-> calculateATR(highs, lows, closes, 14),
   bollingerBands |-> calculateBollingerBands(closes, 20),
   volumeSma20    |-> calculateSMA(volumes, 20),
   volumeRatio    |-> Quotient(volumes[Len(volumes)], calculateSMA(volumes, 20)),
   fundingRate    |-> 0,
   openInterest   |-> 0]

CountWhere(s, field, v) == Cardinality({i \in 1..Len(s) : s[i][field] = v})

\* a threshold that also sends exactly MinCandles candles down the short path
InsufficientThresholdInclusive(ohlcv) == Len(ohlcv) <= MinCandles

\* if (ohlcv.length < 50)
InsufficientThreshold(ohlcv) == Len(ohlcv) < MinCandles

\* the SentimentResult that the function handed to withCache builds from the
\* retrieved candles at time t
SentimentOf(symbol, ohlcv, t) ==
  IF InsufficientThreshold(ohlcv)
    THEN [symbol |-> symbol, overall |-> "NEUTRAL", score |-> 0,
          signals |-> <<>>, patterns |-> <<>>,
          summary |-> <<"Insufficient data for analysis">>, timestamp |-> t]
  ELSE LET closes     == Column(ohlcv, "close")
           highs      == Column(ohlcv, "high")
           lows       == Column(ohlcv, "low")
           volumes    == Column(ohlcv, "volume")
           indicators == Indicators(symbol, closes, highs, lows, volumes)
           signals    == generateSignals(indicators)
           patterns   == detectPatterns(closes, highs, lows)
           finalScore == FinalScore(signals, patterns)
       IN [symbol |-> symbol, overall |-> Overall(finalScore),
           score |-> finalScore, signals |-> signals, patterns |-> patterns,
           summary |-> <<Overall(finalScore),
                         CountWhere(signals, "signal", "BUY"),
                         CountWhere(signals, "signal", "SELL"),
                         CountWhere(patterns, "type", "bullish"),
                         CountWhere(patterns, "type", "bearish")>>,
           timestamp |-> t]

\* SentimentOf for each answer of the upstream, computed once: the symbol
\* only labels the result and the time only stamps it
Analysis ==
  [o \in NetworkFailures \cup Bodies |-> SentimentOf("", fetchOHLCV(o).value, 0)]

\* fetchFn: await fetchOHLCV(...), then the result for `symbol` at time t
FetchFn(symbol, outcome, t) ==
  IF fetchOHLCV(outcome).threw THEN [threw |-> TRUE, value |-> <<>>]
  ELSE [threw |-> FALSE,
        value |-> [Analysis[outcome] EXCEPT !.symbol = symbol, !.timestamp = t]]

-----------------------------------------------------------------------------
(* State                                                                   *)

VARIABLES
  now,     \* Date.now(), in milliseconds
  cache,   \* MemoryCache.cache: key -> [data, expiresAt]
  calls,   \* the invocations of getMarketSentiment, in the order they started
  objs,    \* the number of SentimentResult objects created so far
  fn,      \* the pure function under test ("none" in the service)
  args,    \* its arguments, as the caller holds them
  ret      \* its return value

vars == <<now, cache, calls, objs, fn, args, ret>>

service == <<now, cache, calls, objs>>

harness == <<fn, args, ret>>

-----------------------------------------------------------------------------
(* MemoryCache and withCache                                               *)

MapPut(m, k, v) == [x \in DOMAIN m \cup {k} |-> IF x = k THEN v ELSE m[x]]

MapRemove(m, k) == [x \in DOMAIN m \ {k} |-> m[x]]

NoObject == [oid |-> 0]

\* an expiry test that already fails at the deadline
ExpiredAtDeadline(entry, t) == t >= entry.expiresAt

\* Date.now() > entry.expiresAt
Expired(entry, t) == t > entry.expiresAt

\* a get without the expiry test
CacheGetNoExpiry(c, key, t) ==
  IF key \notin DOMAIN c THEN [value |-> NoObject, cache |-> c]
  ELSE [value |-> c[key].data, cache |-> c]

\* MemoryCache.get: the value read (NoObject for null) and the map afterwards
CacheGet(c, key, t) ==
  IF key \notin DOMAIN c THEN [value |-> NoObject, cache |-> c]
  ELSE IF Expired(c[key], t) THEN [value |-> NoObject, cache |-> MapRemove(c, key)]
  ELSE [value |-> c[key].data, cache |-> c]

\* a set that keeps the entry the key already has
CacheSetIfAbsent(c, key, data, ttlSeconds, t) ==
  IF key \in DOMAIN c THEN c
  ELSE MapPut(c, key, [data |-> data, expiresAt |-> t + ttlSeconds * 1000])

\* a set that takes the TTL for milliseconds
CacheSetMillis(c, key, data, ttlSeconds, t) ==
  MapPut(c, key, [data |-> data, expiresAt |-> t + ttlSeconds])

\* MemoryCache.set
CacheSet(c, key, data, ttlSeconds, t) ==
  MapPut(c, key, [data |-> data, expiresAt |-> t + ttlSeconds * 1000])

\* a cache key that leaves the symbol out
SentimentKeyShared(symbol) == <<"sentiment", "">>

\* `sentiment:${symbol}`
SentimentKey(symbol) == <<"sentiment", symbol>>

\* what a call remembers of its retrieval: how it ended ("threw": an
\* exception in the try block of fetchOHLCV, "not_ok": a non-OK status,
\* "body": a body was read) and the candle series the upstream answered with
Retrieved(outcome) ==
  [how   |-> IF FetchAttempt(outcome).threw THEN "threw"
             ELSE IF outcome.kind = "not_ok" THEN "not_ok" ELSE "body",
   shape |-> outcome.shape,
   n     |-> outcome.n]

NotRetrieved == [how |-> "pending", shape |-> "none", n |-> 0]

\* a call that hit the cache retrieved nothing; it remembers the series the
\* upstream held at that moment
Skipped(held) == [how |-> "skipped", shape |-> held.shape, n |-> held.n]

CandleBodies == {o \in Bodies : o.kind = "candles"}

NewCall(symbol, pc, hit, retrieved, result) ==
  [symbol |-> symbol, pc |-> pc, hit |-> hit, retrieved |-> retrieved,
   result |-> result]

\* a fetchFn that fills and returns one module-level result object
NewObjectShared(oid, val) == [oid |-> 1, val |-> val]

\* a result object: an identity around the record fetchFn built
NewObject(oid, val) == [oid |-> oid, val |-> val]

\* withCache up to its await: a hit returns the stored object, a miss starts
\* fetchFn, which starts fetchOHLCV, which awaits fetch()
Call(symbol) ==
  /\ Len(calls) < MaxCalls
  /\ LET got == CacheGet(cache, SentimentKey(symbol), now)
     IN /\ cache' = got.cache
        /\ IF got.value # NoObject
             THEN \E held \in CandleBodies :
                    calls' = Append(calls, NewCall(symbol, "done", TRUE,
                                                   Skipped(held), got.value))
           ELSE calls' = Append(calls, NewCall(symbol, "fetch", FALSE,
                                               NotRetrieved, NoObject))
  /\ UNCHANGED <<now, objs>>
  /\ UNCHANGED harness

\* a settling that returns an insufficient-data result without storing it
SettleUncachedFailure(i, outcome) ==
  LET c    == calls[i]
      got  == FetchFn(c.symbol, outcome, now)
      data == NewObject(objs + 1, got.value)
  IN /\ ~got.threw
     /\ objs' = objs + 1
     /\ cache' = IF got.value.signals = <<>> THEN cache
                 ELSE CacheSet(cache, SentimentKey(c.symbol), data, SentimentTtl, now)
     /\ calls' = [calls EXCEPT ![i].pc = "done",
                               ![i].retrieved = Retrieved(outcome),
                               ![i].result = data]

\* the rest of fetchOHLCV, of fetchFn and of withCache once retrieval has
\* settled with `outcome`: build the result, store it, return it
Settle(i, outcome) ==
  LET c   == calls[i]
      got == FetchFn(c.symbol, outcome, now)
  IN IF got.threw
       THEN /\ calls' = [calls EXCEPT ![i].pc = "rejected",
                                      ![i].retrieved = Retrieved(outcome)]
            /\ UNCHANGED <<cache, objs>>
     ELSE LET data == NewObject(objs + 1, got.value)
          IN /\ objs' = objs + 1
             /\ cache' = CacheSet(cache, SentimentKey(c.symbol), data, SentimentTtl, now)
             /\ calls' = [calls EXCEPT ![i].pc = "done",
                                       ![i].retrieved = Retrieved(outcome),
                                       ![i].result = data]

\* await fetch(...) settles with a failure out of `failures`
FetchFailsWith(i, failures) ==
  /\ i \in 1..Len(calls)
  /\ calls[i].pc = "fetch"
  /\ \E outcome \in failures : Settle(i, outcome)
  /\ UNCHANGED now
  /\ UNCHANGED harness

\* await fetch(...) settles: rejected, answered with a non-OK status, or OK
FetchFails(i) == FetchFailsWith(i, NetworkFailures)

FetchResponds(i) ==
  /\ i \in 1..Len(calls)
  /\ calls[i].pc = "fetch"
  /\ calls' = [calls EXCEPT ![i].pc = "json"]
  /\ UNCHANGED <<now, cache, objs>>
  /\ UNCHANGED harness

\* await response.json() settles with a body out of `bodies`
BodyArrivesWith(i, bodies) ==
  /\ i \in 1..Len(calls)
  /\ calls[i].pc = "json"
  /\ \E outcome \in bodies : Settle(i, outcome)
  /\ UNCHANGED now
  /\ UNCHANGED harness

\* await response.json() settles
BodyArrives(i) == BodyArrivesWith(i, Bodies)

\* the clock moves by the sentiment TTL, or by one millisecond past a positive
\* multiple of it
Tick ==
  /\ now > 0 /\ now % (SentimentTtl * 1000) = 0
  /\ now' = now + 1
  /\ UNCHANGED <<cache, calls, objs>>
  /\ UNCHANGED harness

TickTtl ==
  /\ (now \div (SentimentTtl * 1000)) < MaxLongTicks
  /\ now' = now + SentimentTtl * 1000
  /\ UNCHANGED <<cache, calls, objs>>
  /\ UNCHANGED harness

Init ==
  /\ now = 0
  /\ cache = <<>>
  /\ calls = <<>>
  /\ objs = 0
  /\ fn = "none"
  /\ args = <<>>
  /\ ret = <<>>

Next ==
  \/ \E symbol \in Symbols : Call(symbol)
  \/ \E i \in 1..MaxCalls : FetchFails(i)
  \/ \E i \in 1..MaxCalls : FetchResponds(i)
  \/ \E i \in 1..MaxCalls : BodyArrives(i)
  \/ Tick
  \/ TickTtl

Spec == Init /\ [][Next]_vars

-----------------------------------------------------------------------------
(* What a call leaves in the arrays it was handed.  Arrays are passed by    *)
(* reference; each operator gives the receiver after the array method the  *)
(* code calls on it.                                                       *)

\* prices.splice(-n) removes the elements it returns
AfterSpliceLast(a, n) == SliceFirst(a, Len(a) - Min2(n, Len(a)))

\* prices.slice(-n) copies
AfterSliceLast(a, n) == a

\* prices.slice(0, n) copies
AfterSliceFirst(a, n) == a

\* prices.slice(0, -1) copies
AfterSliceButLast(a) == a

calculateSMAInputs(prices, period) ==
  IF Len(prices) < period THEN prices ELSE AfterSliceLast(prices, period)

calculateEMAInputs(prices, period) ==
  IF Len(prices) < period THEN prices ELSE AfterSliceFirst(prices, period)

calculateRSIInputs(prices, period) == prices

calculateMACDInputs(prices) ==
  calculateEMAInputs(calculateEMAInputs(prices, 12), 26)

calculateBollingerBandsInputs(prices, period) ==
  AfterSliceLast(calculateSMAInputs(prices, period), period)

calculateATRInputs(highs, lows, closes, period) ==
  [highs |-> highs, lows |-> lows, closes |-> closes]

detectPatternsInputs(prices, highs, lows) ==
  LET p3 == calculateSMAInputs(
              calculateSMAInputs(calculateSMAInputs(prices, 20), 50), 200)
      p5 == IF Len(p3) >= 200
              THEN AfterSliceButLast(AfterSliceButLast(p3))
            ELSE p3
  IN [prices |-> p5,
      highs  |-> AfterSliceLast(AfterSliceLast(highs, 20), 5),
      lows   |-> AfterSliceLast(AfterSliceLast(lows, 20), 5)]

generateSignalsInputs(indicators) == indicators

-----------------------------------------------------------------------------
(* The aggregator on its own (specification SpecScore)                     *)

MaxSignals == 6

MaxPatterns == 3

\* b BUY entries, then s SELL entries, then n NEUTRAL entries
SignalList(b, s, n) ==
  [i \in 1..(b + s + n) |->
     Signal("any", IF i <= b THEN "BUY" ELSE IF i <= b + s THEN "SELL"
                   ELSE "NEUTRAL", Fin(0))]

SignalLists ==
  {SignalList(t[1], t[2], t[3]) : t \in
     {u \in (0..MaxSignals) \X (0..MaxSignals) \X (0..MaxSignals) :
        u[1] + u[2] + u[3] <= MaxSignals}}

PatternInputs ==
  {Pattern("any", ty, c) : ty \in {"bullish", "bearish", "neutral"}, c \in {85, 100}}

PatternLists == UNION {[1..k -> PatternInputs] : k \in 0..MaxPatterns}

InitScore ==
  /\ now = 0 /\ cache = <<>> /\ calls = <<>> /\ objs = 0
  /\ fn = "none"
  /\ args \in [signals : SignalLists, patterns : PatternLists]
  /\ ret = <<>>

\* the aggregation step of getMarketSentiment: score, pattern influence,
\* final clamp, classification
Aggregate ==
  /\ fn = "none"
  /\ fn' = "aggregate"
  /\ LET finalScore == FinalScore(args.signals, args.patterns)
     IN ret' = [score |-> finalScore, overall |-> Overall(finalScore)]
  /\ UNCHANGED args
  /\ UNCHANGED service

SpecScore == InitScore /\ [][Aggregate]_vars

-----------------------------------------------------------------------------
(* The signal generator on its own (specification SpecSignals)             *)

IndicatorInputs ==
  {[symbol |-> "BTC", price |-> pm[1] * Scale, sma20 |-> pm[2] * Scale,
    sma50 |-> pm[3] * Scale, sma200 |-> 2 * Scale, ema12 |-> 2 * Scale,
    ema26 |-> 2 * Scale, rsi14 |-> rsi * Scale, macd |-> macd,
    atr14 |-> Scale, bollingerBands |-> bb, volumeSma20 |-> 10 * Scale,
    volumeRatio |-> vr, fundingRate |-> fr, openInterest |-> 0] :
     pm \in {<<3, 2, 1>>, <<1, 2, 3>>, <<2, 2, 2>>},
     rsi \in {20, 50, 80},
     macd \in {MacdTriple(m) : m \in {-10, -5, 0, 5, 10}}
              \cup {[macd |-> -10, signal |-> 0, histogram |-> 5]},
     bb \in {[upper |-> 3 * Scale, middle |-> 2 * Scale, lower |-> Scale],
             [upper |-> 2 * Scale, middle |-> 2 * Scale, lower |-> 2 * Scale]},
     vr \in {Fin(Scale), Fin(2 * Scale), Fin(3 * Scale),
             [kind |-> "NaN", v |-> 0], [kind |-> "Infinity", v |-> 0]},
     fr \in {-4, -2, 0, 10, 12}}

InitSignals ==
  /\ now = 0 /\ cache = <<>> /\ calls = <<>> /\ objs = 0
  /\ fn = "none"
  /\ args \in [indicators : IndicatorInputs]
  /\ ret = <<>>

CallGenerateSignals ==
  /\ fn = "none"
  /\ fn' = "generateSignals"
  /\ ret' = generateSignals(args.indicators)
  /\ args' = [args EXCEPT !.indicators = generateSignalsInputs(args.indicators)]
  /\ UNCHANGED service

SpecSignals == InitSignals /\ [][CallGenerateSignals]_vars

-----------------------------------------------------------------------------
(* The calculators and the detector on their own (specification SpecCalc)  *)

MaxLen == 3

MaxPeriod == 2

ShortSeries == UNION {[1..k -> {Scale, 2 * Scale}] : k \in 0..MaxLen}

\* a series long enough for every slice of calculateMACD to happen
LongSeries == [i \in 1..30 |-> (100 + 2 * i) * Scale]

SampleIndicators ==
  CHOOSE ind \in IndicatorInputs :
    NumGt(ind.volumeRatio, 2 * Scale) /\ ind.fundingRate = 12

InitCalc ==
  /\ now = 0 /\ cache = <<>> /\ calls = <<>> /\ objs = 0
  /\ fn = "none"
  /\ \E prices \in ShortSeries \cup {LongSeries}, period \in 1..MaxPeriod :
       args = [prices |-> prices,
               highs |-> [i \in 1..Len(prices) |-> prices[i] + Scale],
               lows |-> [i \in 1..Len(prices) |-> prices[i] - Scale],
               period |-> period,
               indicators |-> SampleIndicators]
  /\ ret = <<>>

CallSMA ==
  /\ fn = "none"
  /\ fn' = "calculateSMA"
  /\ ret' = calculateSMA(args.prices, args.period)
  /\ args' = [args EXCEPT !.prices = calculateSMAInputs(args.prices, args.period)]
  /\ UNCHANGED service

CallEMA ==
  /\ fn = "none"
  /\ fn' = "calculateEMA"
  /\ ret' = calculateEMA(args.prices, args.period)
  /\ args' = [args EXCEPT !.prices = calculateEMAInputs(args.prices, args.period)]
  /\ UNCHANGED service

CallRSI ==
  /\ fn = "none"
  /\ fn' = "calculateRSI"
  /\ ret' = calculateRSI(args.prices, args.period)
  /\ args' = [args EXCEPT !.prices = calculateRSIInputs(args.prices, args.period)]
  /\ UNCHANGED service

CallMACD ==
  /\ fn = "none"
  /\ fn' = "calculateMACD"
  /\ ret' = calculateMACD(args.prices)
  /\ args' = [args EXCEPT !.prices = calculateMACDInputs(args.prices)]
  /\ UNCHANGED service

CallBollingerBands ==
  /\ fn = "none"
  /\ fn' = "calculateBollingerBands"
  /\ ret' = calculateBollingerBands(args.prices, args.period)
  /\ args' = [args EXCEPT
                !.prices = calculateBollingerBandsInputs(args.prices, args.period)]
  /\ UNCHANGED service

CallATR ==
  /\ fn = "none"
  /\ fn' = "calculateATR"
  /\ ret' = calculateATR(args.highs, args.lows, args.prices, args.period)
  /\ LET after == calculateATRInputs(args.highs, args.lows, args.prices, args.period)
     IN args' = [args EXCEPT !.highs = after.highs, !.lows = after.lows,
                             !.prices = after.closes]
  /\ UNCHANGED service

CallDetectPatterns ==
  /\ fn = "none"
  /\ fn' = "detectPatterns"
  /\ ret' = detectPatterns(args.prices, args.highs, args.lows)
  /\ LET after == detectPatternsInputs(args.prices, args.highs, args.lows)
     IN args' = [args EXCEPT !.highs = after.highs, !.lows = after.lows,
                             !.prices = after.prices]
  /\ UNCHANGED service

NextCalc ==
  \/ CallSMA
  \/ CallEMA
  \/ CallRSI
  \/ CallMACD
  \/ CallBollingerBands
  \/ CallATR
  \/ CallDetectPatterns
  \/ CallGenerateSignals

SpecCalc == InitCalc /\ [][NextCalc]_vars

-----------------------------------------------------------------------------
(* One evaluation on its own (specification SpecEval): the function that   *)
(* getMarketSentiment hands to withCache, applied to a retrieved series.   *)
(* The caller holds a funding rate and an open interest for the symbol;    *)
(* getMarketSentiment(symbol) has no parameter that takes them.            *)

EvalShapes == {"up", "down", "flat"}

EvalLens == {MinCandles - 1, MinCandles, MinCandles + 1}

\* -0.02, -0.01, 0, 0.05, 0.06
FundingInputs == {-4, -2, 0, 10, 12}

OpenInterestInputs == {0, 1000 * Scale}

NoIndicators == [symbol |-> "none"]

\* the indicators record and the result built from each series, computed once
Evaluation ==
  [sh \in EvalShapes, n \in EvalLens |->
     LET ohlcv == Candles(sh, n)
     IN [indicators |->
           IF InsufficientThreshold(ohlcv) THEN NoIndicators
           ELSE Indicators("", Column(ohlcv, "close"), Column(ohlcv, "high"),
                           Column(ohlcv, "low"), Column(ohlcv, "volume")),
         result |-> SentimentOf("", ohlcv, 0)]]

InitEval ==
  /\ now = 0 /\ cache = <<>> /\ calls = <<>> /\ objs = 0
  /\ fn = "none"
  /\ args \in [symbol : Symbols, shape : EvalShapes, n : EvalLens,
               fundingRate : FundingInputs, openInterest : OpenInterestInputs]
  /\ ret = <<>>

Evaluate ==
  /\ fn = "none"
  /\ fn' = "evaluate"
  /\ LET e == Evaluation[args.shape, args.n]
     IN ret' = [indicators |-> IF e.indicators = NoIndicators THEN NoIndicators
                               ELSE [e.indicators EXCEPT !.symbol = args.symbol],
                result |-> [e.result EXCEPT !.symbol = args.symbol]]
  /\ UNCHANGED args
  /\ UNCHANGED service

SpecEval == InitEval /\ [][Evaluate]_vars

-----------------------------------------------------------------------------
(* The pattern detector on its own (specification SpecPatterns)            *)

PatternShapes == {"up", "down", "flat", "cross", "dip"}

PatternLens == {0, 1, 4, 5, 199, 200, 201}

\* how much of the highs and lows accompanies the closes: all of them, the
\* last four, or none; "wide" is all of them with bars that reach from half
\* the close to twice the close
HistoryModes == {"full", "short", "none", "wide"}

\* closes of n bars: rising by 2 a bar, falling by 2 a bar, flat at 100, or
\* flat at 100 with a dip to 99 on the bar before the last and a jump to 200
\* on the last, which takes the 50-bar mean across the 200-bar mean, or
\* rising by 2 a bar with a last bar that falls back by 100
PatternCloses(shape, n) ==
  [i \in 1..n |->
     IF shape = "up" THEN (100 + 2 * i) * Scale
     ELSE IF shape = "down" THEN (1000 - 2 * i) * Scale
     ELSE IF shape = "dip" THEN (IF i = n THEN 2 * i ELSE 100 + 2 * i) * Scale
     ELSE IF shape = "cross" /\ i = n THEN 200 * Scale
     ELSE IF shape = "cross" /\ i = n - 1 THEN 99 * Scale
     ELSE 100 * Scale]

History(series, mode) ==
  IF mode = "full" THEN series
  ELSE IF mode = "short" THEN SliceLast(series, 4)
  ELSE <<>>

InitPatterns ==
  /\ now = 0 /\ cache = <<>> /\ calls = <<>> /\ objs = 0
  /\ fn = "none"
  /\ \E shape \in PatternShapes, n \in PatternLens, mode \in HistoryModes :
       LET closes == PatternCloses(shape, n)
       IN args = [prices |-> closes,
                  highs |-> IF mode = "wide" THEN [i \in 1..n |-> closes[i] * 2]
                            ELSE History([i \in 1..n |-> closes[i] + Scale], mode),
                  lows |-> IF mode = "wide" THEN [i \in 1..n |-> closes[i] \div 2]
                           ELSE History([i \in 1..n |-> closes[i] - Scale], mode)]
  /\ ret = <<>>

SpecPatterns == InitPatterns /\ [][CallDetectPatterns]_vars

-----------------------------------------------------------------------------
(* getAllSentiments (specification SpecAll): symbols.map(getMarketSentiment)*)
(* starts one evaluation per tracked symbol, each up to its first await,   *)
(* and Promise.all waits for all of them.                                  *)

TrackedSymbols == <<"BTC", "ETH", "HYPE">>

\* the invocations of getAllSentiments the model follows, one after another
MaxRounds == 2

\* getMarketSentiment(symbol) up to its await, on the cache c and after the
\* calls cs: withCache reads the cache; a hit is done, a miss awaits fetch()
Started(st, symbol) ==
  LET got == CacheGet(st.cache, SentimentKey(symbol), now)
  IN [cache |-> got.cache,
      calls |-> Append(st.calls,
                       IF got.value # NoObject
                         THEN NewCall(symbol, "done", TRUE, Skipped(NotRetrieved),
                                      got.value)
                       ELSE NewCall(symbol, "fetch", FALSE, NotRetrieved, NoObject))]

\* symbols.map(getMarketSentiment): symbols[k], symbols[k + 1], ... in order
RECURSIVE MapStarted(_, _, _)
MapStarted(st, symbols, k) ==
  IF k > Len(symbols) THEN st
  ELSE MapStarted(Started(st, symbols[k]), symbols, k + 1)

\* a combinator that lists the results in the order in which they were created
PromiseAllByCompletion(cs, first, n) ==
  LET mine == {cs[first + k - 1].result : k \in 1..n}
  IN [k \in 1..n |->
        CHOOSE r \in mine : Cardinality({q \in mine : q.oid < r.oid}) = k - 1]

\* Promise.all: the results in the order of the promises it was given
PromiseAll(cs, first, n) == [k \in 1..n |-> cs[first + k - 1].result]

GetAllSentiments ==
  /\ fn \in {"none", "getAllSentiments"}
  /\ Len(calls) < MaxRounds * Len(TrackedSymbols)
  /\ LET st == MapStarted([cache |-> cache, calls |-> calls], TrackedSymbols, 1)
     IN cache' = st.cache /\ calls' = st.calls
  /\ fn' = "Promise.all"
  /\ args' = [first |-> Len(calls) + 1]
  /\ ret' = <<>>
  /\ UNCHANGED <<now, objs>>

\* every promise handed to Promise.all has resolved
AllResolve ==
  /\ fn = "Promise.all"
  /\ \A k \in 1..Len(TrackedSymbols) : calls[args.first + k - 1].pc = "done"
  /\ fn' = "getAllSentiments"
  /\ ret' = PromiseAll(calls, args.first, Len(TrackedSymbols))
  /\ UNCHANGED args
  /\ UNCHANGED service

\* a step of one of the evaluations while the caller waits (the clock stands
\* still: the rounds follow each other within the TTL)
EvaluationStep ==
  \/ \E i \in 1..(MaxRounds * Len(TrackedSymbols)) : FetchFails(i)
  \/ \E i \in 1..(MaxRounds * Len(TrackedSymbols)) : FetchResponds(i)
  \/ \E i \in 1..(MaxRounds * Len(TrackedSymbols)) : BodyArrives(i)

NextAll ==
  \/ GetAllSentiments
  \/ AllResolve
  \/ EvaluationStep

SpecAll == Init /\ [][NextAll]_vars

-----------------------------------------------------------------------------
(* MemoryCache on its own (specification SpecCache): callers invoke get,   *)
(* set, delete, clear and stats on the singleton while the clock moves.    *)
(* `calls` is the list of the invocations, each with the time it ran at    *)
(* and what it returned.                                                   *)

MaxOps == 3

CacheKeys == {"a", "b"}

\* what the callers store: key, value, TTL in seconds
Stores ==
  {[key |-> "a", data |-> [oid |-> 1], ttl |-> SentimentTtl],
   [key |-> "a", data |-> [oid |-> 2], ttl |-> 0],
   [key |-> "b", data |-> [oid |-> 2], ttl |-> SentimentTtl]}

Void == [oid |-> -1]

Invocation(op, key, data, ttl, at, returned) ==
  [op |-> op, key |-> key, data |-> data, ttl |-> ttl, at |-> at,
   ret |-> returned]

\* stats(): size and keys of the map (the keys as a set)
CacheStats(c) == [size |-> Cardinality(DOMAIN c), keys |-> DOMAIN c]

OpGet(key) ==
  /\ Len(calls) < MaxOps
  /\ LET got == CacheGet(cache, key, now)
     IN /\ cache' = got.cache
        /\ calls' = Append(calls, Invocation("get", key, Void, 0, now, got.value))
  /\ UNCHANGED <<now, objs>>
  /\ UNCHANGED harness

OpSet(key, data, ttlSeconds) ==
  /\ Len(calls) < MaxOps
  /\ cache' = CacheSet(cache, key, data, ttlSeconds, now)
  /\ calls' = Append(calls, Invocation("set", key, data, ttlSeconds, now, Void))
  /\ UNCHANGED <<now, objs>>
  /\ UNCHANGED harness

OpDelete(key) ==
  /\ Len(calls) < MaxOps
  /\ cache' = MapRemove(cache, key)
  /\ calls' = Append(calls, Invocation("delete", key, Void, 0, now, Void))
  /\ UNCHANGED <<now, objs>>
  /\ UNCHANGED harness

OpClear ==
  /\ Len(calls) < MaxOps
  /\ cache' = <<>>
  /\ calls' = Append(calls, Invocation("clear", "", Void, 0, now, Void))
  /\ UNCHANGED <<now, objs>>
  /\ UNCHANGED harness

OpStats ==
  /\ Len(calls) < MaxOps
  /\ calls' = Append(calls, Invocation("stats", "", Void, 0, now, CacheStats(cache)))
  /\ UNCHANGED <<now, cache, objs>>
  /\ UNCHANGED harness

NextCache ==
  \/ \E key \in CacheKeys : OpGet(key)
  \/ \E st \in Stores : OpSet(st.key, st.data, st.ttl)
  \/ \E key \in CacheKeys : OpDelete(key)
  \/ OpClear
  \/ OpStats
  \/ Tick
  \/ TickTtl

SpecCache == Init /\ [][NextCache]_vars

-----------------------------------------------------------------------------
(* withCache on its own (specification SpecWithCache): callers invoke      *)
(* withCache(key, ttlSeconds, fetchFn) with a fetchFn that, some time      *)
(* later, resolves with a fresh value, resolves with null, or rejects.     *)
(* `calls` is the list of the invocations and `objs` counts the            *)
(* invocations of fetchFn.                                                 *)

MaxWithCache == 3

\* the key and the TTL, in seconds, of the invocations
WithCacheArgs ==
  {[key |-> "a", ttl |-> SentimentTtl], [key |-> "b", ttl |-> SentimentTtl]}

\* the number of awaits passed so far: one event for every invocation and
\* one for every fetch that has settled
Events(cs) ==
  Len(cs) + Cardinality({k \in 1..Len(cs) : ~cs[k].hit /\ cs[k].pc # "fetch"})

Invoked(key, ttl, pc, hit, result, began) ==
  [key |-> key, ttl |-> ttl, pc |-> pc, hit |-> hit, result |-> result,
   began |-> began, ended |-> 0]

\* a withCache that writes the rejection reason into the cache
AfterRejectionStored(c, key, t) == MapPut(c, key, [data |-> NoObject, expiresAt |-> t])

\* the cache after `await fetchFn()` threw: cache.set is not reached
AfterRejection(c, key, t) == c

\* withCache up to its await: a hit returns, a miss invokes fetchFn
WithCache(key, ttlSeconds) ==
  /\ Len(calls) < MaxWithCache
  /\ LET got == CacheGet(cache, key, now)
     IN /\ cache' = got.cache
        /\ IF got.value # NoObject
             THEN /\ calls' = Append(calls, Invoked(key, ttlSeconds, "done", TRUE,
                                                    got.value, Events(calls) + 1))
                  /\ objs' = objs
           ELSE /\ calls' = Append(calls, Invoked(key, ttlSeconds, "fetch", FALSE,
                                                  NoObject, Events(calls) + 1))
                /\ objs' = objs + 1
  /\ UNCHANGED now
  /\ UNCHANGED harness

\* fetchFn resolves with `data`: cache.set(key, data, ttlSeconds); return data
FetchResolves(i, data) ==
  /\ i \in 1..Len(calls)
  /\ calls[i].pc = "fetch"
  /\ cache' = CacheSet(cache, calls[i].key, data, calls[i].ttl, now)
  /\ calls' = [calls EXCEPT ![i].pc = "done", ![i].result = data,
                            ![i].ended = Events(calls) + 1]
  /\ UNCHANGED <<now, objs>>
  /\ UNCHANGED harness

\* fetchFn rejects: the await throws and withCache rejects with the reason
FetchRejects(i) ==
  /\ i \in 1..Len(calls)
  /\ calls[i].pc = "fetch"
  /\ cache' = AfterRejection(cache, calls[i].key, now)
  /\ calls' = [calls EXCEPT ![i].pc = "rejected", ![i].ended = Events(calls) + 1]
  /\ UNCHANGED <<now, objs>>
  /\ UNCHANGED harness

NextWithCache ==
  \/ \E a \in WithCacheArgs : WithCache(a.key, a.ttl)
  \/ \E i \in 1..MaxWithCache : FetchResolves(i, [oid |-> i])
  \/ \E i \in 1..MaxWithCache : FetchResolves(i, NoObject)
  \/ \E i \in 1..MaxWithCache : FetchRejects(i)
  \/ Tick
  \/ TickTtl

SpecWithCache == Init /\ [][NextWithCache]_vars

-----------------------------------------------------------------------------
(* Repeated evaluations of one symbol (specification SpecRepeat): callers  *)
(* invoke getMarketSentiment("BTC") again and again, also while earlier    *)
(* evaluations are still retrieving, and the clock moves.                  *)

MaxRepeats == 3

RepeatedSymbol == TrackedSymbols[1]

\* what the upstream does in this specification: the request fails, or it
\* answers with one candle too few, or with enough candles
RepeatFailures == {Outcome("network_error", "none", 0)}

RepeatBodies ==
  {Outcome("candles", "up", MinCandles - 1), Outcome("candles", "up", MinCandles)}

CallAgain ==
  /\ Len(calls) < MaxRepeats
  /\ LET st == Started([cache |-> cache, calls |-> calls], RepeatedSymbol)
     IN cache' = st.cache /\ calls' = st.calls
  /\ UNCHANGED <<now, objs>>
  /\ UNCHANGED harness

NextRepeat ==
  \/ CallAgain
  \/ \E i \in 1..MaxRepeats : FetchFailsWith(i, RepeatFailures)
  \/ \E i \in 1..MaxRepeats : FetchResponds(i)
  \/ \E i \in 1..MaxRepeats : BodyArrivesWith(i, RepeatBodies)
  \/ Tick
  \/ TickTtl

SpecRepeat == Init /\ [][NextRepeat]_vars

-----------------------------------------------------------------------------
(* Properties of the service (specification Spec)                          *)

CallIds == 1..Len(calls)

Done(i) == calls[i].pc = "done"

Miss(i) == Done(i) /\ ~calls[i].hit

Hit(i) == Done(i) /\ calls[i].hit

Failed(i) == calls[i].retrieved.how \in {"threw", "not_ok"}

\* the part of a result that the claims compare
Verdict(r) ==
  [overall |-> r.overall, score |-> r.score, signals |-> r.signals,
   patterns |-> r.patterns]

InsufficientVerdict ==
  [overall |-> "NEUTRAL", score |-> 0, signals |-> <<>>, patterns |-> <<>>]

\* the verdict of an evaluation, alone, of each series (the verdict does not
\* depend on the symbol)
SeriesVerdicts ==
  [sh \in Shapes \cup {"none"}, n \in SeriesLens |->
     Verdict(SentimentOf("", Candles(sh, n), 0))]

\* the verdict of an evaluation, alone, of the series a call is about
VerdictOfSeries(c) == SeriesVerdicts[c.retrieved.shape, c.retrieved.n]

\* C1: an evaluation that retrieved fewer than 50 candles (49, or none at
\* all) returns NEUTRAL, score 0, no signals and no patterns; one that
\* retrieved 50 candles does not take that path: it returns the four fixed
\* signals.
C1_InsufficientData ==
  \A i \in CallIds :
    Miss(i) =>
      /\ calls[i].retrieved.n < 50 => Verdict(calls[i].result.val) = InsufficientVerdict
      /\ calls[i].retrieved.n >= 50 => Len(calls[i].result.val.signals) >= 4

C1_Witness ==
  \E i, j \in CallIds :
    /\ Miss(i) /\ calls[i].retrieved.n = 49
    /\ Verdict(calls[i].result.val) = InsufficientVerdict
    /\ Miss(j) /\ calls[j].retrieved.n = 50
    /\ calls[j].result.val.signals # <<>>

\* C5: getMarketSentiment never rejects: whatever the retrieval did (a
\* rejected fetch, a non-OK status, an unreadable or malformed body, any
\* number of candles) and whatever the cache held, a call whose retrieval has
\* settled has returned a SentimentResult.
C5_NeverRejects ==
  \A i \in CallIds :
    /\ calls[i].pc # "rejected"
    /\ calls[i].retrieved.how \in {"threw", "not_ok", "body", "skipped"} =>
         Done(i) /\ calls[i].result # NoObject

C5_Witness ==
  \E i, j \in CallIds :
    /\ calls[i].retrieved.how = "threw" /\ Done(i) /\ calls[i].result # NoObject
    /\ calls[j].retrieved.how = "not_ok" /\ Done(j)

\* C6, as claimed: a failed retrieval is never turned into a SentimentResult;
\* the call fails instead.
C6_Original ==
  \A i \in CallIds :
    Failed(i) => calls[i].pc = "rejected" /\ calls[i].result = NoObject

\* C6, amended: a failed retrieval is absorbed. fetchOHLCV returns the empty
\* series, the call returns the insufficient-data result, and that result is
\* stored under the symbol's key: the key holds it or a later result, and is
\* absent only once the TTL of the result has passed.
C6_FailureAbsorbed ==
  \A i \in CallIds :
    Failed(i) =>
      /\ Done(i)
      /\ calls[i].retrieved.n = 0
      /\ Verdict(calls[i].result.val) = InsufficientVerdict
      /\ LET key == SentimentKey(calls[i].symbol)
         IN IF key \in DOMAIN cache
              THEN cache[key].data.oid >= calls[i].result.oid
            ELSE now > calls[i].result.val.timestamp + 60 * 1000

C6_Witness ==
  \E i \in CallIds :
    /\ calls[i].retrieved.how = "threw"
    /\ Done(i)
    /\ SentimentKey(calls[i].symbol) \in DOMAIN cache
    /\ cache[SentimentKey(calls[i].symbol)].data = calls[i].result
    /\ now = calls[i].result.val.timestamp + 60 * 1000

\* C7, as claimed: the result of an invocation depends only on the symbol and
\* on the candle series it is about: it is the verdict that an evaluation of
\* that series alone returns, whatever was invoked before.
C7_Original ==
  \A i \in CallIds :
    Done(i) => Verdict(calls[i].result.val) = VerdictOfSeries(calls[i])

\* C7, amended: the computation is deterministic, the service is not
\* stateless. A call that misses the cache returns the verdict of the series
\* it retrieved, so two misses over the same series agree; a call that hits
\* returns the result stored by an earlier miss for the same symbol, whatever
\* series the upstream holds by then.
C7_DeterministicOnMiss ==
  /\ \A i \in CallIds :
       Miss(i) => Verdict(calls[i].result.val) = VerdictOfSeries(calls[i])
  /\ \A i, j \in CallIds :
       /\ Miss(i) /\ Miss(j)
       /\ calls[i].retrieved.n = calls[j].retrieved.n
       /\ calls[i].retrieved.shape = calls[j].retrieved.shape
       => Verdict(calls[i].result.val) = Verdict(calls[j].result.val)
  /\ \A i \in CallIds :
       Hit(i) => /\ calls[i].result.val.symbol = calls[i].symbol
                 /\ \E j \in 1..(i - 1) :
                      /\ Miss(j)
                      /\ calls[j].symbol = calls[i].symbol
                      /\ calls[j].result = calls[i].result

C7_Witness ==
  \E i \in CallIds :
    /\ Hit(i)
    /\ calls[i].retrieved.n = 50
    /\ Verdict(calls[i].result.val) = InsufficientVerdict

\* C8, as claimed: no two invocations return the same result object.
C8_Original ==
  \A i, j \in CallIds :
    Done(i) /\ Done(j) /\ i # j => calls[i].result.oid # calls[j].result.oid

\* C8, amended: a result object is created fresh on every cache miss (no two
\* misses return the same object); a hit returns the very object an earlier
\* miss stored, so the two callers and the cache share it.
C8_FreshOnMiss ==
  /\ \A i, j \in CallIds :
       Miss(i) /\ Miss(j) /\ i # j => calls[i].result.oid # calls[j].result.oid
  /\ \A i \in CallIds :
       Hit(i) => \E j \in 1..(i - 1) :
                   Miss(j) /\ calls[j].result.oid = calls[i].result.oid

C8_Witness ==
  \E i, j \in CallIds :
    /\ Miss(i) /\ Hit(j)
    /\ calls[i].result.oid = calls[j].result.oid

-----------------------------------------------------------------------------
(* Properties of the aggregator (specification SpecScore)                  *)

Aggregated == fn = "aggregate"

Buys == CountWhere(args.signals, "signal", "BUY")

Sells == CountWhere(args.signals, "signal", "SELL")

\* how many patterns of the given type carry the given confidence
PatternCount(type, confidence) ==
  Cardinality({i \in 1..Len(args.patterns) :
                 /\ args.patterns[i].type = type
                 /\ args.patterns[i].confidence = confidence})

\* restriction to [-100, 100], written with comparisons
ClampTo100(x) ==
  IF x > 100 * ScoreUnit THEN 100 * ScoreUnit
  ELSE IF x < -100 * ScoreUnit THEN -100 * ScoreUnit
  ELSE x

\* 0.2 * confidence for a bullish pattern, the opposite for a bearish one,
\* nothing for a neutral one, added over the two confidences of the inputs
PatternDelta ==
  ((85 * ScoreUnit) \div 5) * (PatternCount("bullish", 85) - PatternCount("bearish", 85))
  + ((100 * ScoreUnit) \div 5)
      * (PatternCount("bullish", 100) - PatternCount("bearish", 100))

\* C2: the final score lies in [-100, 100] for any number and mix of BUY and
\* SELL signals and any list of bullish and bearish patterns.
C2_ScoreInRange ==
  Aggregated => ret.score >= -100 * ScoreUnit /\ ret.score <= 100 * ScoreUnit

\* six BUY signals and three bullish patterns at confidence 100 give 100
C2_Witness ==
  /\ Aggregated
  /\ Buys = 6
  /\ PatternCount("bullish", 100) >= 3
  /\ ret.score = 100 * ScoreUnit

\* C3: the final score is clamp(clamp(20 * (#BUY - #SELL)) + pattern delta):
\* the base score is clamped before the pattern delta is added and the total
\* is clamped again.
C3_ScoreFormula ==
  Aggregated =>
    ret.score = ClampTo100(ClampTo100(20 * ScoreUnit * (Buys - Sells)) + PatternDelta)

\* six BUY signals reach 120 before the first clamp; one bearish pattern at
\* confidence 100 then brings the clamped base of 100 down to 80
C3_Witness ==
  /\ Aggregated
  /\ Buys = 6 /\ Sells = 0
  /\ Len(args.patterns) = 1
  /\ PatternCount("bearish", 100) = 1
  /\ ret.score = 80 * ScoreUnit

\* C4: STRONG_BUY iff score >= 60, BUY iff 20 <= score < 60, STRONG_SELL iff
\* score <= -60, SELL iff -60 < score <= -20, NEUTRAL iff -20 < score < 20.
C4_Classification ==
  Aggregated =>
    /\ ret.overall = "STRONG_BUY" <=> ret.score >= 60 * ScoreUnit
    /\ ret.overall = "BUY" <=>
         ret.score >= 20 * ScoreUnit /\ ret.score < 60 * ScoreUnit
    /\ ret.overall = "STRONG_SELL" <=> ret.score <= -60 * ScoreUnit
    /\ ret.overall = "SELL" <=>
         ret.score > -60 * ScoreUnit /\ ret.score <= -20 * ScoreUnit
    /\ ret.overall = "NEUTRAL" <=>
         ret.score > -20 * ScoreUnit /\ ret.score < 20 * ScoreUnit

\* a score of exactly 60 is STRONG_BUY
C4_Witness ==
  /\ Aggregated
  /\ ret.score = 60 * ScoreUnit
  /\ ret.overall = "STRONG_BUY"

-----------------------------------------------------------------------------
(* Properties of the signal generator (specification SpecSignals)          *)

Generated == fn = "generateSignals"

FixedOrder == <<"RSI (14)", "MACD", "MA Alignment", "Bollinger Bands">>

ConditionalTail ==
  {<<>>, <<"Volume">>, <<"Funding Rate">>, <<"Volume", "Funding Rate">>}

\* C10: the list starts with RSI, MACD, MA Alignment and Bollinger Bands, in
\* this order, followed by at most one Volume entry and then at most one
\* Funding Rate entry; its length is 4 to 6 and no indicator appears twice.
C10_SignalOrder ==
  Generated =>
    LET names == [i \in 1..Len(ret) |-> ret[i].indicator]
    IN /\ Len(ret) >= 4 /\ Len(ret) <= 6
       /\ SubSeq(names, 1, 4) = FixedOrder
       /\ SubSeq(names, 5, Len(names)) \in ConditionalTail
       /\ \A i, j \in 1..Len(names) : i # j => names[i] # names[j]

\* both conditional rules fire: six entries, Volume before Funding Rate
C10_Witness ==
  /\ Generated
  /\ Len(ret) = 6
  /\ ret[5].indicator = "Volume"
  /\ ret[6].indicator = "Funding Rate"

-----------------------------------------------------------------------------
(* Properties of the calculators (specification SpecCalc)                  *)

\* C9: no calculator, nor the pattern detector, nor the signal generator
\* changes its inputs: after the call every input array and the indicators
\* record hold what they held before it, in the same order.
C9_InputsUnchanged == [][args' = args]_vars

\* calculateSMA has returned from a call in which it took its slice
C9_Witness ==
  /\ fn = "calculateSMA"
  /\ Len(args.prices) >= args.period
  /\ ret = calculateSMA(args.prices, args.period)
  /\ ret > 0

-----------------------------------------------------------------------------
(* Properties of one evaluation (specification SpecEval)                   *)

Evaluated == fn = "evaluate"

\* the evaluation took the long path and built an indicators record
Analysed == Evaluated /\ args.n >= 50

HasEntry(signals, indicator, signal) ==
  \E k \in 1..Len(signals) :
    signals[k].indicator = indicator /\ signals[k].signal = signal

\* C11, as claimed: the evaluation uses the caller's funding rate and open
\* interest in its indicators record, so that a funding rate below -0.01
\* yields a Funding Rate BUY entry and one above 0.05 a Funding Rate SELL
\* entry.
C11_Original ==
  Analysed =>
    /\ ret.indicators.fundingRate = args.fundingRate
    /\ ret.indicators.openInterest = args.openInterest
    /\ args.fundingRate * 100 < (-1) * Scale =>
         HasEntry(ret.result.signals, "Funding Rate", "BUY")
    /\ args.fundingRate * 100 > 5 * Scale =>
         HasEntry(ret.result.signals, "Funding Rate", "SELL")

\* C16, as claimed: every field of the indicators record is a finite number;
\* with a zero 20-period volume average the volume ratio is a finite fallback
\* and no Volume entry is produced.
C16_Original ==
  Analysed =>
    /\ ret.indicators.volumeRatio.kind = "finite"
    /\ ret.indicators.volumeSma20 = 0 =>
         \A k \in 1..Len(ret.result.signals) :
           ret.result.signals[k].indicator # "Volume"

-----------------------------------------------------------------------------
(* Properties of calculateSMA, calculateRSI and calculateBollingerBands    *)
(* (specification SpecCalc)                                                *)

\* the sum of the last n elements of s, for n <= Len(s)
RECURSIVE TailSum(_, _)
TailSum(s, n) == IF n = 0 THEN 0 ELSE s[Len(s) - n + 1] + TailSum(s, n - 1)

\* C12: calculateSMA returns the arithmetic mean of the last `period`
\* elements (to the nearest unit) when there are at least `period` of them,
\* the last element when there are fewer but some, and 0 for no elements.
C12_SmaMean ==
  fn = "calculateSMA" =>
    LET p == args.prices
        n == args.period
    IN IF Len(p) >= n THEN 2 * Abs(ret * n - TailSum(p, n)) <= n
       ELSE IF Len(p) > 0 THEN ret = p[Len(p)]
       ELSE ret = 0

\* a mean over two different elements, which is neither of them
C12_Witness ==
  /\ fn = "calculateSMA"
  /\ args.period = 2
  /\ Len(args.prices) = 3
  /\ args.prices[2] # args.prices[3]
  /\ 2 * ret = args.prices[2] + args.prices[3]

\* the price deltas that calculateRSI samples: the last `period` of them
WindowDeltas ==
  {args.prices[i] - args.prices[i - 1] :
     i \in (Len(args.prices) - args.period + 1)..Len(args.prices)}

RsiSampled == fn = "calculateRSI" /\ Len(args.prices) >= args.period + 1

\* C13: calculateRSI returns a value in [0, 100], and 50 when fewer than
\* period + 1 prices are available.
C13_RsiRange ==
  fn = "calculateRSI" =>
    /\ ret >= 0
    /\ ret <= 100 * Scale
    /\ Len(args.prices) < args.period + 1 => ret = 50 * Scale

\* a window of losses only reaches the lower end of the range
C13_Witness ==
  /\ RsiSampled
  /\ \A d \in WindowDeltas : d < 0
  /\ ret = 0

\* C14, as claimed: with at least period + 1 prices the RSI is exactly 100 if
\* and only if no sampled delta is negative and at least one is positive.
C14_Original ==
  RsiSampled =>
    (ret = 100 * Scale
       <=> (\A d \in WindowDeltas : d >= 0) /\ (\E d \in WindowDeltas : d > 0))

-----------------------------------------------------------------------------
(* Properties of the pattern detector (specification SpecPatterns)         *)

Detected == fn = "detectPatterns"

\* the entries of the returned list that carry the given name
Entries(name) == {k \in 1..Len(ret) : ret[k].name = name}

\* the sum of the n closes that end at bar e (1-based), for e >= n
BarSum(e, n) == SumRange(args.prices, e - n + 1, e)

\* the 50-bar mean was below the 200-bar mean at the previous bar and is
\* above it at the current bar, each mean taken over that many closes
\* (sum50 / 50 < sum200 / 200 iff 4 * sum50 < sum200)
TrueGoldenCross ==
  LET last == Len(args.prices)
  IN /\ last >= 200
     /\ last - 1 >= 200
     /\ 4 * BarSum(last - 1, 50) < BarSum(last - 1, 200)
     /\ 4 * BarSum(last, 50) > BarSum(last, 200)

\* C17, as claimed: detectPatterns emits exactly one Golden Cross entry
\* (bullish, confidence 85) when the 50-bar mean of the closes has crossed
\* above their 200-bar mean on the current bar, and none otherwise.
C17_Original ==
  Detected =>
    /\ Cardinality(Entries("Golden Cross")) = IF TrueGoldenCross THEN 1 ELSE 0
    /\ \A k \in Entries("Golden Cross") :
         ret[k].type = "bullish" /\ ret[k].confidence = 85

\* C18, as claimed: a rule whose history is absent does not fire: no Golden
\* or Death Cross with fewer than 200 closes, no Uptrend Structure with fewer
\* than 5 highs and lows, and no pattern at all for empty inputs.
C18_Original ==
  Detected =>
    /\ Len(args.prices) < 200 =>
         Entries("Golden Cross") = {} /\ Entries("Death Cross") = {}
    /\ Len(args.highs) < 5 /\ Len(args.lows) < 5 =>
         Entries("Uptrend Structure") = {}
    /\ Len(args.prices) = 0 /\ Len(args.highs) = 0 /\ Len(args.lows) = 0 =>
         ret = <<>>

-----------------------------------------------------------------------------
(* Properties of single rules of generateSignals (specification            *)
(* SpecSignals)                                                            *)

\* the signals of the entries that carry the given indicator name, in order
SignalsOf(indicator) ==
  LET idx == {k \in 1..Len(ret) : ret[k].indicator = indicator}
  IN {ret[k].signal : k \in idx}

\* -0.01 and 0.05 in the unit of the model
FundingLow == -(Scale \div 100)

FundingHigh == (5 * Scale) \div 100

\* C19: a Funding Rate BUY entry iff fundingRate < -0.01, a Funding Rate SELL
\* entry iff fundingRate > 0.05, and no Funding Rate entry in between, the
\* values -0.01 and 0.05 included.
C19_FundingRule ==
  Generated =>
    LET rate == args.indicators.fundingRate
    IN /\ rate < FundingLow => SignalsOf("Funding Rate") = {"BUY"}
       /\ rate > FundingHigh => SignalsOf("Funding Rate") = {"SELL"}
       /\ rate >= FundingLow /\ rate <= FundingHigh => SignalsOf("Funding Rate") = {}

\* a funding rate of exactly -0.01 emits nothing
C19_Witness ==
  /\ Generated
  /\ args.indicators.fundingRate = FundingLow
  /\ SignalsOf("Funding Rate") = {}

\* C20: the Bollinger Bands signal is BUY iff price <= lower band, otherwise
\* SELL iff price >= upper band, otherwise NEUTRAL; with the bands collapsed
\* onto the price it is BUY.
C20_BollingerRule ==
  Generated =>
    LET price == args.indicators.price
        bands == args.indicators.bollingerBands
    IN SignalsOf("Bollinger Bands") =
         {IF price <= bands.lower THEN "BUY"
          ELSE IF price >= bands.upper THEN "SELL"
          ELSE "NEUTRAL"}

\* the bands have collapsed onto the price: BUY
C20_Witness ==
  /\ Generated
  /\ args.indicators.bollingerBands.lower = args.indicators.price
  /\ args.indicators.bollingerBands.upper = args.indicators.price
  /\ SignalsOf("Bollinger Bands") = {"BUY"}

-----------------------------------------------------------------------------
(* Properties of calculateEMA (specification SpecCalc)                     *)

\* the mean of the first `period` elements of s, the value the EMA starts from
EmaSeed(s, period) == RoundDiv(TailSum(SubSeq(s, 1, period), period), period)

\* the EMA of the first k elements of s
EmaUpTo(s, period, k) == calculateEMA(SubSeq(s, 1, k), period)

\* the series that differ from s in their most recent element at most
LastReplaced(s) ==
  IF Len(s) = 0 THEN {s}
  ELSE {[s EXCEPT ![Len(s)] = v] : v \in {Scale, 2 * Scale, 3 * Scale}}

\* C21: calculateEMA is the forward recurrence seeded with the mean of the
\* first `period` elements; the EMA of every proper prefix is the value the
\* recurrence had at that element, so it is the same for two series that
\* differ only in their most recent element; a series shorter than the
\* period gives its last element, the empty series 0.
C21_EmaForward ==
  fn = "calculateEMA" =>
    LET p == args.prices
        n == args.period
    IN /\ Len(p) >= n =>
            /\ ret = EmaUpTo(p, n, Len(p))
            /\ EmaUpTo(p, n, n) = EmaSeed(p, n)
       /\ \A k \in (n + 1)..Len(p) :
            LET before == EmaUpTo(p, n, k - 1)
            IN EmaUpTo(p, n, k) = RoundDiv((p[k] - before) * 2, n + 1) + before
       /\ \A q \in LastReplaced(p) : \A k \in 0..(Len(p) - 1) :
            calculateEMA(SubSeq(q, 1, k), n) = calculateEMA(SubSeq(p, 1, k), n)
       /\ Len(p) < n /\ Len(p) > 0 => ret = p[Len(p)]
       /\ Len(p) = 0 => ret = 0

\* the loop has run over an element that moved the EMA off its seed
C21_Witness ==
  /\ fn = "calculateEMA"
  /\ Len(args.prices) = args.period + 1
  /\ args.period = 2
  /\ ret # EmaSeed(args.prices, args.period)
  /\ ret # args.prices[Len(args.prices)]

-----------------------------------------------------------------------------
(* Properties of the trend and the support/resistance rules                *)
(* (specification SpecPatterns)                                            *)

CurrentPrice == args.prices[Len(args.prices)]

\* the n-bar average of the closes as the detector sees it: the mean of the
\* last n closes (exact for the closes of the inputs), the current price when
\* there are fewer than n
SmaSeen(n) ==
  IF Len(args.prices) < n THEN CurrentPrice
  ELSE BarSum(Len(args.prices), n) \div n

AboveBoth ==
  Len(args.prices) > 0 /\ CurrentPrice > SmaSeen(50) /\ CurrentPrice > SmaSeen(200)

BelowBoth ==
  Len(args.prices) > 0 /\ CurrentPrice < SmaSeen(50) /\ CurrentPrice < SmaSeen(200)

\* C22: Bullish Trend (confidence 70) iff the current price is strictly above
\* the 50-SMA and the 200-SMA, Bearish Trend (confidence 70) iff strictly
\* below both, never both, neither when the comparisons are mixed, and
\* neither with fewer than 200 closes.
C22_TrendRule ==
  Detected =>
    /\ Cardinality(Entries("Bullish Trend")) = (IF AboveBoth THEN 1 ELSE 0)
    /\ Cardinality(Entries("Bearish Trend")) = (IF BelowBoth THEN 1 ELSE 0)
    /\ Entries("Bullish Trend") = {} \/ Entries("Bearish Trend") = {}
    /\ \A k \in Entries("Bullish Trend") :
         ret[k].type = "bullish" /\ ret[k].confidence = 70
    /\ \A k \in Entries("Bearish Trend") :
         ret[k].type = "bearish" /\ ret[k].confidence = 70
    /\ Len(args.prices) < 200 =>
         Entries("Bullish Trend") = {} /\ Entries("Bearish Trend") = {}

\* mixed comparisons over 200 closes or more: below the 50-SMA, above the
\* 200-SMA, and no trend entry
C22_Witness ==
  /\ Detected
  /\ Len(args.prices) >= 200
  /\ CurrentPrice < SmaSeen(50)
  /\ CurrentPrice > SmaSeen(200)
  /\ Entries("Bullish Trend") = {}
  /\ Entries("Bearish Trend") = {}

\* the last n elements of s (all of them when there are fewer)
LastValues(s, n) == {s[i] : i \in Max2(1, Len(s) - n + 1)..Len(s)}

Lowest(S) == CHOOSE m \in S : \A x \in S : m <= x

Highest(S) == CHOOSE m \in S : \A x \in S : m >= x

AtSupport == CurrentPrice * 100 <= 102 * Lowest(LastValues(args.lows, 20))

AtResistance == CurrentPrice * 100 >= 98 * Highest(LastValues(args.highs, 20))

\* C23: for closes, highs and lows that are not empty, Support Test (bullish,
\* 60) iff the current price <= 1.02 * the minimum of the last 20 lows, and
\* Resistance Test (bearish, 60) iff the current price >= 0.98 * the maximum
\* of the last 20 highs, each whatever the other does; when both are
\* emitted, Support Test comes first.
C23_LevelRules ==
  Detected /\ Len(args.prices) > 0 /\ Len(args.lows) > 0 /\ Len(args.highs) > 0 =>
    /\ Cardinality(Entries("Support Test")) = (IF AtSupport THEN 1 ELSE 0)
    /\ Cardinality(Entries("Resistance Test")) = (IF AtResistance THEN 1 ELSE 0)
    /\ \A k \in Entries("Support Test") :
         ret[k].type = "bullish" /\ ret[k].confidence = 60
    /\ \A k \in Entries("Resistance Test") :
         ret[k].type = "bearish" /\ ret[k].confidence = 60
    /\ \A i \in Entries("Support Test"), j \in Entries("Resistance Test") : i < j

\* both are emitted in one call over 20 bars or more, Support Test right
\* before Resistance Test
C23_Witness ==
  /\ Detected
  /\ Len(args.lows) >= 20 /\ Len(args.highs) >= 20
  /\ AtSupport /\ AtResistance
  /\ \E i \in Entries("Support Test") : i + 1 \in Entries("Resistance Test")

\* neither level is near: no Support Test and no Resistance Test
C23_NeitherReached ==
  /\ Detected
  /\ Len(args.lows) >= 20
  /\ ~AtSupport /\ ~AtResistance
  /\ Entries("Support Test") = {} /\ Entries("Resistance Test") = {}

-----------------------------------------------------------------------------
(* Properties of getAllSentiments (specification SpecAll)                  *)

\* C24: under every interleaving of the evaluations that getAllSentiments
\* starts, each evaluation returns a result for its own symbol, which on a
\* miss is the verdict of an evaluation, alone, of the candles it retrieved;
\* each stored result is stored under the key of its own symbol only; and
\* the returned list holds the results for BTC, ETH, HYPE in this order.
C24_NoInteraction ==
  /\ \A i \in CallIds :
       Done(i) =>
         /\ calls[i].result.val.symbol = calls[i].symbol
         /\ Miss(i) => Verdict(calls[i].result.val) = VerdictOfSeries(calls[i])
  /\ \A key \in DOMAIN cache :
       /\ key = SentimentKey(cache[key].data.val.symbol)
       /\ \A i \in CallIds :
            Done(i) /\ calls[i].result = cache[key].data =>
              key = SentimentKey(calls[i].symbol)
  /\ fn = "getAllSentiments" =>
       /\ Len(ret) = Len(TrackedSymbols)
       /\ \A k \in 1..Len(ret) :
            /\ ret[k].val.symbol = TrackedSymbols[k]
            /\ ret[k] = calls[args.first + k - 1].result

\* the evaluations completed in the order HYPE, ETH, BTC, with a verdict for
\* BTC that differs from the one for HYPE, and the list is BTC, ETH, HYPE
C24_Witness ==
  /\ fn = "getAllSentiments"
  /\ ret[3].oid < ret[2].oid
  /\ ret[2].oid < ret[1].oid
  /\ Verdict(ret[1].val) # Verdict(ret[3].val)
  /\ ret[1].val.symbol = "BTC"
  /\ ret[3].val.symbol = "HYPE"

-----------------------------------------------------------------------------
(* Properties of the MACD rule (specification SpecSignals)                 *)

\* the triple is one that calculateMACD produces: signal = 0.8 * macd and
\* histogram = macd - signal
ProducedTriple(t) == 10 * t.signal = 8 * t.macd /\ t.histogram = t.macd - t.signal

\* C25: for a triple produced by calculateMACD the MACD signal is BUY exactly
\* when macd is positive, SELL exactly when it is negative and NEUTRAL
\* exactly when it is zero, and such a triple never has histogram > 0 with
\* macd <= signal.
C25_MacdSign ==
  Generated /\ ProducedTriple(args.indicators.macd) =>
    LET t == args.indicators.macd
    IN /\ SignalsOf("MACD") =
            {IF t.macd > 0 THEN "BUY" ELSE IF t.macd < 0 THEN "SELL" ELSE "NEUTRAL"}
       /\ ~(t.histogram > 0 /\ t.macd <= t.signal)

\* a produced triple with a negative macd: SELL
C25_Witness ==
  /\ Generated
  /\ ProducedTriple(args.indicators.macd)
  /\ args.indicators.macd.macd < 0
  /\ SignalsOf("MACD") = {"SELL"}

-----------------------------------------------------------------------------
(* Properties of MemoryCache (specification SpecCache)                     *)

\* the invocations before the k-th that write the entry of `key`
WritesBefore(key, k) ==
  {j \in 1..(k - 1) :
     \/ calls[j].op = "clear"
     \/ calls[j].key = key /\ calls[j].op \in {"set", "delete"}}

LastWrite(key, k) ==
  CHOOSE j \in WritesBefore(key, k) : \A i \in WritesBefore(key, k) : i <= j

\* before the k-th invocation the last write of `key` was a set
Written(key, k) ==
  WritesBefore(key, k) # {} /\ calls[LastWrite(key, k)].op = "set"

\* the deadline that set fixed: its own time plus ttl * 1000
Deadline(key, k) ==
  calls[LastWrite(key, k)].at + calls[LastWrite(key, k)].ttl * 1000

\* a get of `key` ran past the deadline after the last set and before the
\* k-th invocation
ReadPastDeadline(key, k) ==
  \E g \in (LastWrite(key, k) + 1)..(k - 1) :
    calls[g].op = "get" /\ calls[g].key = key /\ calls[g].at > Deadline(key, k)

\* the entry of `key` is in the map before the k-th invocation
InMap(key, k) == Written(key, k) /\ ~ReadPastDeadline(key, k)

\* C26: a get returns the value of the last set of its key up to and
\* including the deadline t + ttl * 1000 of that set, and a miss after it or
\* after a delete or clear; no read moves the deadline; an entry leaves the
\* map only by a get past its deadline, a delete or a clear, and until then
\* stats counts it, expired or not.
C26_TtlOnRead ==
  /\ \A k \in 1..Len(calls) :
       calls[k].op = "get" =>
         calls[k].ret =
           IF Written(calls[k].key, k) /\ calls[k].at <= Deadline(calls[k].key, k)
             THEN calls[LastWrite(calls[k].key, k)].data
           ELSE NoObject
  /\ \A k \in 1..Len(calls) :
       calls[k].op = "stats" =>
         /\ calls[k].ret.keys = {key \in CacheKeys : InMap(key, k)}
         /\ calls[k].ret.size = Cardinality(calls[k].ret.keys)
  /\ DOMAIN cache = {key \in CacheKeys : InMap(key, Len(calls) + 1)}
  /\ \A key \in DOMAIN cache :
       /\ cache[key].data = calls[LastWrite(key, Len(calls) + 1)].data
       /\ cache[key].expiresAt = Deadline(key, Len(calls) + 1)

\* a value set for 60 seconds is read at the deadline, which does not move
\* the deadline: the read one millisecond later misses and removes the entry
C26_Witness ==
  \E i, j, k \in 1..Len(calls) :
    /\ i < j /\ j < k
    /\ calls[i].op = "set" /\ calls[i].ttl = SentimentTtl
    /\ calls[j].op = "get" /\ calls[j].key = calls[i].key
    /\ calls[j].at = calls[i].at + SentimentTtl * 1000
    /\ calls[j].ret = calls[i].data
    /\ calls[k].op = "get" /\ calls[k].key = calls[i].key
    /\ calls[k].at = calls[j].at + 1
    /\ calls[k].ret = NoObject
    /\ calls[i].key \notin DOMAIN cache

\* an expired entry that was never read is still counted by stats
C26_ExpiredCounted ==
  \E i, k \in 1..Len(calls) :
    /\ i < k
    /\ calls[i].op = "set"
    /\ calls[k].op = "stats"
    /\ calls[k].at > calls[i].at + calls[i].ttl * 1000
    /\ calls[i].key \in calls[k].ret.keys
    /\ calls[k].ret.size = 1

-----------------------------------------------------------------------------
(* Properties of withCache (specification SpecWithCache)                   *)

\* the invocation i went to fetchFn
Fetched(i) == ~calls[i].hit

\* the fetch of invocation i has resolved
Resolved(i) == Fetched(i) /\ calls[i].pc = "done"

Rejected(i) == calls[i].pc = "rejected"

\* the key has an entry that a get at this moment returns
Usable(key) ==
  /\ key \in DOMAIN cache
  /\ now <= cache[key].expiresAt
  /\ cache[key].data # NoObject

\* C27: an invocation that finds an unexpired entry with a non-null value
\* returns that value and does not invoke fetchFn; any other invocation
\* invokes fetchFn once, and when the fetch resolves, stores the result under
\* the key with the deadline counted from that moment, and returns it.
C27_HitOrFetchOnce ==
  /\ [][/\ Len(calls') = Len(calls) + 1 =>
            LET c == calls'[Len(calls')]
            IN IF Usable(c.key)
                 THEN /\ c.pc = "done"
                      /\ c.result = cache[c.key].data
                      /\ objs' = objs
               ELSE c.pc = "fetch" /\ objs' = objs + 1
        /\ \A i \in 1..Len(calls) :
             calls[i].pc = "fetch" /\ calls'[i].pc = "done" =>
               /\ objs' = objs
               /\ cache'[calls[i].key] =
                    [data |-> calls'[i].result,
                     expiresAt |-> now + calls[i].ttl * 1000]]_vars
  /\ [](objs = Cardinality({i \in 1..Len(calls) : Fetched(i)}))

\* a fetch that started at 0 and resolved 60 seconds later is stored until
\* 120 seconds, and an invocation at 60.001 seconds returns its value
C27_Witness ==
  \E i, j \in 1..Len(calls) :
    /\ Resolved(i)
    /\ calls[i].result # NoObject
    /\ calls[i].began = 1
    /\ calls[j].hit
    /\ calls[j].result = calls[i].result
    /\ calls[j].began > calls[i].ended
    /\ cache[calls[i].key].expiresAt = 2 * SentimentTtl * 1000
    /\ now = SentimentTtl * 1000 + 1

\* a stored null is no hit: the next invocation fetches although the entry
\* has not expired
C27_NullRefetched ==
  \E i, j \in 1..Len(calls) :
    /\ Resolved(i) /\ calls[i].result = NoObject
    /\ calls[j].key = calls[i].key
    /\ calls[j].began > calls[i].ended
    /\ Fetched(j)
    /\ calls[j].pc = "fetch"
    /\ calls[j].key \in DOMAIN cache
    /\ now <= cache[calls[j].key].expiresAt

\* the resolved fetches for a key
ResolvedFor(key) == {i \in 1..Len(calls) : Resolved(i) /\ calls[i].key = key}

\* j is the first invocation for the key of i that began after i ended
NextAfter(i, j) ==
  /\ calls[j].key = calls[i].key
  /\ calls[j].began > calls[i].ended
  /\ \A k \in 1..Len(calls) :
       calls[k].key = calls[i].key /\ calls[k].began > calls[i].ended =>
         calls[k].began >= calls[j].began

\* a rejection hands no value to the caller and leaves the cache alone
RejectionStep ==
  \A i \in 1..Len(calls) :
    calls[i].pc = "fetch" /\ calls'[i].pc = "rejected" =>
      cache' = cache /\ calls'[i].result = NoObject

-----------------------------------------------------------------------------
(* Properties of repeated evaluations of one symbol (specification         *)
(* SpecRepeat)                                                             *)

\* the evaluations that went to fetchFn and have returned
Misses == {i \in CallIds : Miss(i)}

\* evaluation i is the one among them whose fetch completed last (result
\* objects are numbered in the order of their creation)
CompletedLast(i) ==
  Miss(i) /\ \A k \in Misses : calls[k].result.oid <= calls[i].result.oid

\* C28: fetches in flight are not shared: every evaluation that misses runs
\* its own retrieval and returns its own result object, built from the
\* candles it retrieved itself; the entry of the key holds the result of the
\* fetch that completed last, whichever evaluation started first, until a
\* read after its deadline removes it.
C28_NoDeduplication ==
  /\ objs = Cardinality(Misses)
  /\ \A i, j \in Misses : i # j => calls[i].result.oid # calls[j].result.oid
  /\ \A i \in Misses :
       /\ calls[i].retrieved.how \in {"threw", "body"}
       /\ Verdict(calls[i].result.val) = VerdictOfSeries(calls[i])
  /\ \A i \in CallIds :
       CompletedLast(i) =>
         IF SentimentKey(RepeatedSymbol) \in DOMAIN cache
           THEN cache[SentimentKey(RepeatedSymbol)].data = calls[i].result
         ELSE now > calls[i].result.val.timestamp + SentimentTtl * 1000

\* two evaluations missed at the same moment; the one that started first
\* completed last with another verdict, and the cache holds its result
C28_Witness ==
  \E i, j \in CallIds :
    /\ i < j
    /\ now = 0
    /\ Miss(i) /\ Miss(j)
    /\ calls[i].result.oid > calls[j].result.oid
    /\ Verdict(calls[i].result.val) # Verdict(calls[j].result.val)
    /\ cache[SentimentKey(RepeatedSymbol)].data = calls[i].result

\* the same with the other order of completion: the cache holds the result
\* of the evaluation that started last
C28_LastStartedWins ==
  \E i, j \in CallIds :
    /\ i < j
    /\ now = 0
    /\ Miss(i) /\ Miss(j)
    /\ calls[i].result.oid < calls[j].result.oid
    /\ cache[SentimentKey(RepeatedSymbol)].data = calls[j].result

\* evaluation i has stored an insufficient-data result
StoredInsufficient(i) ==
  Miss(i) /\ Verdict(calls[i].result.val) = InsufficientVerdict

\* the moment up to which the result of evaluation i is served
ServedUntil(i) == calls[i].result.val.timestamp + SentimentTtl * 1000

\* the step starts an evaluation
StartsEvaluation == Len(calls') = Len(calls) + 1

\* the step completes the retrieval of evaluation i with too few candles or
\* none: the insufficient-data result is returned and stored under the key
StoresInsufficient ==
  \A i \in CallIds :
    calls[i].pc # "done" /\ calls'[i].pc = "done" /\ calls'[i].retrieved.n < MinCandles =>
      /\ Verdict(calls'[i].result.val) = InsufficientVerdict
      /\ SentimentKey(calls[i].symbol) \in DOMAIN cache'
      /\ cache'[SentimentKey(calls[i].symbol)] =
           [data |-> calls'[i].result, expiresAt |-> now + SentimentTtl * 1000]

\* an evaluation that starts when no stored result is still served retrieves
RetrievesAfterwards ==
  StartsEvaluation /\ (\A i \in Misses : now > ServedUntil(i)) =>
    calls'[Len(calls')].pc = "fetch"

\* C29, as claimed: a failed or short retrieval stores the insufficient-data
\* result, every call for the symbol in the following 60 seconds returns
\* that result without retrieving, and the first call after them retrieves.
C29_Original ==
  [][/\ StoresInsufficient
     /\ StartsEvaluation =>
          \A i \in CallIds :
            StoredInsufficient(i) /\ now <= ServedUntil(i) =>
              /\ calls'[Len(calls')].hit
              /\ calls'[Len(calls')].result = calls[i].result
     /\ RetrievesAfterwards]_vars

\* C29, amended: a failed or short retrieval stores the insufficient-data
\* result; every call for the symbol in the following 60 seconds returns,
\* without retrieving, the result the key holds at that moment, which is that
\* result or the result of an evaluation that completed after it; a call
\* made when no stored result is within its 60 seconds retrieves again.
C29_NegativeCaching ==
  [][/\ StoresInsufficient
     /\ StartsEvaluation =>
          \A i \in CallIds :
            StoredInsufficient(i) /\ now <= ServedUntil(i) =>
              LET c == calls'[Len(calls')]
              IN /\ c.hit /\ c.pc = "done"
                 /\ objs' = objs
                 /\ c.result = cache[SentimentKey(c.symbol)].data
                 /\ \E k \in Misses :
                      /\ CompletedLast(k)
                      /\ c.result = calls[k].result
                      /\ calls[k].result.oid >= calls[i].result.oid
     /\ RetrievesAfterwards]_vars

\* a retrieval failed, a later call returned the stored insufficient-data
\* result, and a call after the 60 seconds retrieved 50 candles
C29_Witness ==
  \E i, j, k \in CallIds :
    /\ i < j /\ j < k
    /\ StoredInsufficient(i)
    /\ calls[i].retrieved.how = "threw"
    /\ Hit(j)
    /\ calls[j].result = calls[i].result
    /\ Miss(k)
    /\ calls[k].retrieved.n = MinCandles
    /\ calls[k].result.val.timestamp > ServedUntil(i)

=============================================================================
